---------------------------- MODULE Spec2Model ----------------------------
(*
  Recipe generator: prompt construction, the reply splitter and the
  markdown formatter of src/frontend.py, the Streamlit flow that drives
  them, and the /recipeStream event generator of src/backend.py.

  Text representation.  A text is a sequence of tokens.  A token is a run
  of characters that the program never looks inside: a word ("Mix",
  "Instructions"), a punctuation mark ("-", "*", ":", "."), a digit, one
  blank " ", or the line break "\n".  The literals the code searches for
  are sequences of these tokens ("main recipe" is <<"main", " ", "recipe">>),
  so str.startswith is a prefix test and the `in` operator a contiguous
  sub-sequence test on token sequences.  The words of the alphabets below
  are chosen so that no searched literal occurs across a token boundary or
  inside another word, which makes the token tests agree with the
  character tests of the code.
*)
EXTENDS Integers, Sequences, FiniteSets, TLC

VARIABLES
  \* ---- format_recipe_text (src/frontend.py:112-233)
  recipe_text,          \* the argument
  lines,                \* recipe_text.split("\n")
  idx,                  \* number of lines the for loop has consumed
  formatted_lines,
  instructions_buffer,
  current_section,
  fpc,                  \* "idle" | "entry" | "loop" | "done"
  formatted,            \* the returned string
  \* ---- generate_recipe_text (src/frontend.py:24-103)
  args,                 \* the recipe request (also request.args of the backend)
  gpc,                  \* "idle" | "entry" | "call" | "parse" | "ret"
  prompt,
  api_calls,            \* prompts received by the external API, in order
  full_text,
  ret,                  \* the returned pair <<recipe_text, suggestions>>
  raised,               \* whether the API call of this invocation raised
  \* ---- Streamlit flow (src/frontend.py:286-326)
  upc,                  \* "idle" | "button" | "main" | "tabs" | "tab" | "done"
  main_recipe_text,
  suggestions,
  i,                    \* index of the tab being filled (1-based)
  ui_out,               \* what was rendered: st.error / st.markdown calls
  \* ---- /recipeStream (src/backend.py:23-86)
  bpc,                  \* "idle" | "entry" | "call" | "main" | "sugg" | "close" | "done"
  stream_prompt,
  main_recipe,
  stream_suggestions,
  sent,                 \* number of main_recipe chunks already visited
  events                \* the payloads yielded so far

fvars == <<recipe_text, lines, idx, formatted_lines, instructions_buffer,
           current_section, fpc, formatted>>
gvars == <<gpc, prompt, api_calls, full_text, ret, raised>>
uvars == <<upc, main_recipe_text, suggestions, i, ui_out>>
svars == <<bpc, stream_prompt, main_recipe, stream_suggestions, sent, events>>
vars  == <<fvars, args, gvars, uvars, svars>>

-----------------------------------------------------------------------------
(* Bounds of the model. *)

MaxFormatLines == 3
MaxReplyLines == 5
MaxUILines == 3
MaxStreamLines == 3

-----------------------------------------------------------------------------
(* Python string primitives on token sequences. *)

NL == "\n"
SP == " "

SeqsUpTo(S, n) == UNION {[1..k -> S] : k \in 0..n}

RECURSIVE Strip(_)
Strip(s) ==
  IF s = <<>> THEN <<>>
  ELSE IF Head(s) = SP THEN Strip(Tail(s))
  ELSE IF s[Len(s)] = SP THEN Strip(SubSeq(s, 1, Len(s) - 1))
  ELSE s

\* str.lower on one token.  Only the folded labels are ever compared, so the
\* words that are no label of the code keep their spelling.
LowerTok(t) ==
  CASE t = "Title" -> "title"
    [] t = "Main" -> "main"
    [] t = "Recipe" -> "recipe"
    [] t = "Ingredients" -> "ingredients"
    [] t = "Tips" -> "tips"
    [] t = "Other" -> "other"
    [] t = "Suggestions" -> "suggestions"
    [] t = "Instructions" -> "instructions"
    [] t = "Directions" -> "directions"
    [] t = "DIRECTIONS" -> "directions"
    [] t = "Method" -> "method"
    [] t = "METHOD" -> "method"
    [] t = "Mix" -> "mix"
    [] t = "Bake" -> "bake"
    [] t = "Soup" -> "soup"
    [] t = "ERROR" -> "error"
    [] OTHER -> t

Lower(s) == [k \in 1..Len(s) |-> LowerTok(s[k])]

StartsWith(s, p) == Len(p) <= Len(s) /\ SubSeq(s, 1, Len(p)) = p

Contains(s, p) ==
  \E k \in 0..(Len(s) - Len(p)) : SubSeq(s, k + 1, k + Len(p)) = p

RECURSIVE Split(_)
Split(t) ==
  IF \A k \in 1..Len(t) : t[k] # NL THEN <<t>>
  ELSE LET n == CHOOSE k \in 1..Len(t) :
                  t[k] = NL /\ \A j \in 1..(k - 1) : t[j] # NL
       IN <<SubSeq(t, 1, n - 1)>> \o Split(SubSeq(t, n + 1, Len(t)))

RECURSIVE Join(_)
Join(ls) ==
  IF ls = <<>> THEN <<>>
  ELSE IF Len(ls) = 1 THEN ls[1]
  ELSE ls[1] \o <<NL>> \o Join(Tail(ls))

SelectNonEmpty(ls) == SelectSeq(ls, LAMBDA l : l # <<>>)

Digits == <<"1", "2", "3", "4", "5", "6", "7", "8", "9">>
\* str(n) for the step numbers the model reaches.
Str(n) == IF n = 0 THEN "0" ELSE Digits[n]

-----------------------------------------------------------------------------
(* format_recipe_text *)

instruction_synonyms == << <<"instructions">>, <<"directions">>, <<"method">> >>

headings_map ==
  << [key |-> <<"title">>, level |-> "##"],
     [key |-> <<"main", SP, "recipe">>, level |-> "##"],
     [key |-> <<"ingredients">>, level |-> "###"],
     [key |-> <<"tips">>, level |-> "###"],
     [key |-> <<"other", SP, "recipe", SP, "suggestions">>, level |-> "##"] >>

MapMatch(lower_line) ==
  {k \in 1..Len(headings_map) : StartsWith(lower_line, headings_map[k].key)}

SynonymPrefix(lower_line) ==
  \E k \in 1..Len(instruction_synonyms) :
     StartsWith(lower_line, instruction_synonyms[k])

SynonymInside(lower_line) ==
  \E k \in 1..Len(instruction_synonyms) :
     Contains(lower_line, instruction_synonyms[k])

\* The heading level of a stripped line, or "" when it is no heading.
MatchedHeading(line_stripped) ==
  LET lower_line == Lower(line_stripped) IN
  IF MapMatch(lower_line) # {}
    THEN headings_map[CHOOSE k \in MapMatch(lower_line) :
                        \A j \in MapMatch(lower_line) : k <= j].level
  ELSE IF SynonymPrefix(lower_line) THEN "###"
  ELSE ""

IsHeading(line) ==
  Strip(line) # <<>> /\ MatchedHeading(Strip(line)) # ""

\* The if/elif chain that picks current_section for a heading line.
HeadingSection(lower_line) ==
  IF Contains(lower_line, <<"ingredients">>) THEN "ingredients"
  ELSE IF Contains(lower_line, <<"tips">>) THEN "tips"
  ELSE IF Contains(lower_line, <<"main", SP, "recipe">>) THEN "main_recipe"
  ELSE IF Contains(lower_line, <<"other", SP, "recipe", SP, "suggestions">>)
    THEN "suggestions"
  ELSE IF SynonymInside(lower_line) THEN "instructions"
  ELSE "other"

HeadingLine(level, line_stripped) ==
  <<level, SP, "**">> \o line_stripped \o <<"**">>

\* _flush_instructions with enumerate() left at its default start of 0.
FlushFromZero(buffer) ==
  << <<>> >> \o [k \in 1..Len(buffer) |-> <<Str(k - 1), ".", SP>> \o buffer[k]]

_flush_instructions(buffer) ==
  << <<>> >> \o [k \in 1..Len(buffer) |-> <<Str(k), ".", SP>> \o buffer[k]]

FlushIfAny(buffer) ==
  IF buffer # <<>> THEN _flush_instructions(buffer) ELSE <<>>

\* re.match(r"^[-*]\s", line_stripped)
HasBullet(line_stripped) ==
  /\ Len(line_stripped) >= 2
  /\ line_stripped[1] \in {"-", "*"}
  /\ line_stripped[2] = SP

BulletLine(line_stripped) ==
  IF HasBullet(line_stripped) THEN line_stripped
  ELSE <<"-", SP>> \o line_stripped

\* One iteration of the for loop (lines 144-225) on the locals
\* st = [formatted_lines, instructions_buffer, current_section].
FormatStep(st, line) ==
  LET line_stripped == Strip(line)
      lower_line == Lower(line_stripped)
      matched_heading == MatchedHeading(line_stripped)
      section == HeadingSection(lower_line)
  IN
  IF line_stripped = <<>>
    THEN [st EXCEPT !.formatted_lines = Append(@, <<>>)]
  ELSE IF matched_heading # ""
    THEN [formatted_lines |->
            Append(st.formatted_lines, HeadingLine(matched_heading, line_stripped))
            \o FlushIfAny(st.instructions_buffer),
          instructions_buffer |->
            IF section = "instructions" THEN <<>> ELSE st.instructions_buffer,
          current_section |-> section]
  ELSE IF st.current_section = "instructions"
    THEN [st EXCEPT !.instructions_buffer = Append(@, line_stripped)]
  ELSE IF st.current_section \in {"ingredients", "tips"}
    THEN [st EXCEPT !.formatted_lines = Append(@, BulletLine(line_stripped))]
  ELSE [st EXCEPT !.formatted_lines = Append(@, line_stripped)]

FormatLocals0 ==
  [formatted_lines |-> <<>>, instructions_buffer |-> <<>>,
   current_section |-> "none"]

RECURSIVE FormatLoop(_, _)
FormatLoop(st, ls) ==
  IF ls = <<>> THEN st ELSE FormatLoop(FormatStep(st, Head(ls)), Tail(ls))

\* The final flush and the join (lines 227-233).
FormatFinish(st) ==
  Join(st.formatted_lines \o FlushIfAny(st.instructions_buffer))

format_recipe_text(text) ==
  FormatFinish(FormatLoop(FormatLocals0, Split(text)))

FormatLocals ==
  [formatted_lines |-> formatted_lines,
   instructions_buffer |-> instructions_buffer,
   current_section |-> current_section]

FormatEntry ==
  /\ fpc = "entry"
  /\ lines' = Split(recipe_text)
  /\ formatted_lines' = FormatLocals0.formatted_lines
  /\ instructions_buffer' = FormatLocals0.instructions_buffer
  /\ current_section' = FormatLocals0.current_section
  /\ idx' = 0
  /\ fpc' = "loop"
  /\ UNCHANGED <<recipe_text, formatted>>

FormatIterate ==
  /\ idx' = idx + 1
  /\ LET st == FormatStep(FormatLocals, lines[idx + 1]) IN
       /\ formatted_lines' = st.formatted_lines
       /\ instructions_buffer' = st.instructions_buffer
       /\ current_section' = st.current_section
  /\ UNCHANGED <<recipe_text, lines, fpc, formatted>>

FormatBlank ==
  /\ fpc = "loop" /\ idx < Len(lines)
  /\ Strip(lines[idx + 1]) = <<>>
  /\ FormatIterate

FormatHeading ==
  /\ fpc = "loop" /\ idx < Len(lines)
  /\ IsHeading(lines[idx + 1])
  /\ FormatIterate

FormatBody ==
  /\ fpc = "loop" /\ idx < Len(lines)
  /\ Strip(lines[idx + 1]) # <<>>
  /\ ~IsHeading(lines[idx + 1])
  /\ FormatIterate

FormatReturn ==
  /\ fpc = "loop" /\ idx = Len(lines)
  /\ formatted_lines' = formatted_lines \o FlushIfAny(instructions_buffer)
  /\ instructions_buffer' = <<>>
  /\ formatted' = Join(formatted_lines')
  /\ fpc' = "done"
  /\ UNCHANGED <<recipe_text, lines, idx, current_section>>

FormatLineSet ==
  { <<>>,
    <<"Instructions", ":">>,
    <<"METHOD">>,
    <<"Ingredients", ":">>,
    <<"Tips", ":">>,
    <<"Title", ":", SP, "Soup">>,
    <<"Title", ":", SP, "Ingredients", SP, "Soup">>,
    <<"Directions", SP, "and", SP, "tips">>,
    <<"Mix">>,
    <<SP, "Bake", SP>>,
    <<"-", SP, "egg">>,
    <<"-", "egg">>,
    <<"1", ".", SP, "Mix">> }

FormatInputs == {Join(ls) : ls \in SeqsUpTo(FormatLineSet, MaxFormatLines)}

FIdle ==
  /\ recipe_text = <<>> /\ lines = <<>> /\ idx = 0
  /\ formatted_lines = <<>> /\ instructions_buffer = <<>>
  /\ current_section = "none" /\ fpc = "idle" /\ formatted = <<>>

NoArgs ==
  [ingredients |-> <<>>, meal_type |-> <<>>, cuisine |-> <<>>,
   cooking_time |-> <<>>, complexity |-> <<>>, recipe_name |-> <<>>]

GIdle ==
  /\ gpc = "idle" /\ prompt = <<>> /\ api_calls = <<>>
  /\ full_text = <<>> /\ ret = <<>> /\ raised = FALSE

UIdle ==
  /\ upc = "idle" /\ main_recipe_text = <<>> /\ suggestions = <<>>
  /\ i = 0 /\ ui_out = <<>>

SIdle ==
  /\ bpc = "idle" /\ stream_prompt = <<>> /\ main_recipe = <<>>
  /\ stream_suggestions = <<>> /\ sent = 0 /\ events = <<>>

InitFormat ==
  /\ recipe_text \in FormatInputs
  /\ lines = <<>> /\ idx = 0
  /\ formatted_lines = <<>> /\ instructions_buffer = <<>>
  /\ current_section = "none" /\ fpc = "entry" /\ formatted = <<>>
  /\ args = NoArgs
  /\ GIdle /\ UIdle /\ SIdle

NextFormat ==
  \/ FormatEntry /\ UNCHANGED <<args, gvars, uvars, svars>>
  \/ FormatBlank /\ UNCHANGED <<args, gvars, uvars, svars>>
  \/ FormatHeading /\ UNCHANGED <<args, gvars, uvars, svars>>
  \/ FormatBody /\ UNCHANGED <<args, gvars, uvars, svars>>
  \/ FormatReturn /\ UNCHANGED <<args, gvars, uvars, svars>>

SpecFormat == InitFormat /\ [][NextFormat]_vars

-----------------------------------------------------------------------------
(* The recipe request and the prompt builders.

   An optional value is a sequence of length at most one: <<>> is None and
   <<v>> is the value v.  A prompt is the sequence of the parts of the
   f-string: the literal pieces of the template, named by what they say,
   and the interpolated fields with the value put in. *)

None == <<>>
Some(v) == <<v>>

\* Python truthiness of an optional string: neither None nor "".
Truthy(opt) == opt # None /\ opt[1] # <<>>

Text(id) == [tag |-> "text", name |-> id, val |-> <<>>]
Field(f, v) == [tag |-> "field", name |-> f, val |-> v]

\* FrontendPrompt with the mode test written `recipe_name is not None`.
FrontendPromptNotNone(a) ==
  IF a.recipe_name # None
    THEN << Text("expert chef: create a detailed recipe for"),
            Field("recipe_name", a.recipe_name[1]),
            Text("include title, ingredients list, instructions, tips") >>
    ELSE << Text("expert chef: generate a recipe using the details below"),
            Text("Ingredients:"), Field("ingredients", a.ingredients),
            Text("Meal Type:"), Field("meal_type", a.meal_type),
            Text("Cuisine Preference:"), Field("cuisine", a.cuisine),
            Text("Cooking Time:"), Field("cooking_time", a.cooking_time),
            Text("Complexity:"), Field("complexity", a.complexity),
            Text("Main Recipe: title, ingredients, instructions, tips"),
            Text("Other Recipe Suggestions: exactly three alternative recipe names, each prefixed with a dash"),
            Text("ensure the response is clear") >>

\* src/frontend.py:30-64
FrontendPrompt(a) ==
  IF Truthy(a.recipe_name)
    THEN << Text("expert chef: create a detailed recipe for"),
            Field("recipe_name", a.recipe_name[1]),
            Text("include title, ingredients list, instructions, tips") >>
    ELSE << Text("expert chef: generate a recipe using the details below"),
            Text("Ingredients:"), Field("ingredients", a.ingredients),
            Text("Meal Type:"), Field("meal_type", a.meal_type),
            Text("Cuisine Preference:"), Field("cuisine", a.cuisine),
            Text("Cooking Time:"), Field("cooking_time", a.cooking_time),
            Text("Complexity:"), Field("complexity", a.complexity),
            Text("Main Recipe: title, ingredients, instructions, tips"),
            Text("Other Recipe Suggestions: exactly three alternative recipe names, each prefixed with a dash"),
            Text("ensure the response is clear") >>

\* src/backend.py:32-47
BackendPrompt(a) ==
  IF Truthy(a.recipe_name)
    THEN << Text("Generate a detailed recipe for"),
            Field("recipe_name", a.recipe_name[1]),
            Text("Include ingredients, instructions, and tips.") >>
    ELSE << Text("Generate a recipe using the following details:"),
            Text("Ingredients:"), Field("ingredients", a.ingredients),
            Text("Meal Type:"), Field("meal_type", a.meal_type),
            Text("Cuisine Preference:"), Field("cuisine", a.cuisine),
            Text("Cooking Time:"), Field("cooking_time", a.cooking_time),
            Text("Complexity:"), Field("complexity", a.complexity),
            Text("Provide a detailed recipe."),
            Text("Then, also suggest 3 other similar recipes by name only."),
            Text("Label them as Other Recipes: in the output.") >>

-----------------------------------------------------------------------------
(* generate_recipe_text *)

SuggestionsHeader == <<"Other", SP, "Recipe", SP, "Suggestions", ":">>

SplitLocals0 ==
  [main_recipe_lines |-> <<>>, suggestions |-> <<>>,
   is_suggestions_part |-> FALSE]

\* SplitStep with the dash left on a suggestion line.
SplitStepKeepDash(st, line) ==
  IF Contains(line, SuggestionsHeader)
    THEN [st EXCEPT !.is_suggestions_part = TRUE]
  ELSE IF st.is_suggestions_part
    THEN IF Strip(line) # <<>>
           THEN [st EXCEPT !.suggestions = Append(@, Strip(line))]
         ELSE st
  ELSE [st EXCEPT !.main_recipe_lines = Append(@, Strip(line))]

\* One iteration of the for loop of lines 86-100.
SplitStep(st, line) ==
  IF Contains(line, SuggestionsHeader)
    THEN [st EXCEPT !.is_suggestions_part = TRUE]
  ELSE IF st.is_suggestions_part
    THEN IF StartsWith(Strip(line), <<"-">>)
           THEN [st EXCEPT !.suggestions = Append(@, Strip(Tail(Strip(line))))]
         ELSE IF Strip(line) # <<>>
           THEN [st EXCEPT !.suggestions = Append(@, Strip(line))]
         ELSE st
  ELSE [st EXCEPT !.main_recipe_lines = Append(@, Strip(line))]

RECURSIVE SplitLoop(_, _)
SplitLoop(st, ls) ==
  IF ls = <<>> THEN st ELSE SplitLoop(SplitStep(st, Head(ls)), Tail(ls))

\* Lines 80-103: the pair <<recipe_text, suggestions>> for a reply.
SplitResponse(text) ==
  LET st == SplitLoop(SplitLocals0, Split(text)) IN
  << Join(SelectNonEmpty(st.main_recipe_lines)), st.suggestions >>

\* Line 78: the pair returned when the call raised e.
ErrorResult(e) == << <<"ERROR", ":", SP>> \o e, <<>> >>

ApiErrors == { <<"timeout">>, <<"quota">> }

GenBuildPrompt ==
  /\ gpc = "entry"
  /\ prompt' = FrontendPrompt(args)
  /\ gpc' = "call"
  /\ UNCHANGED <<api_calls, full_text, ret, raised>>

\* openai.ChatCompletion.create returns a reply out of Replies.
GenApiOk(Replies) ==
  /\ gpc = "call"
  /\ api_calls' = Append(api_calls, prompt)
  /\ \E text \in Replies : full_text' = text
  /\ gpc' = "parse"
  /\ UNCHANGED <<prompt, ret, raised>>

\* GenApiRaise with one retry of the failed call before giving up.
GenApiRaiseRetry ==
  /\ gpc = "call"
  /\ api_calls' = api_calls \o <<prompt, prompt>>
  /\ \E e \in ApiErrors : ret' = ErrorResult(e)
  /\ raised' = TRUE
  /\ gpc' = "ret"
  /\ UNCHANGED <<prompt, full_text>>

\* The call, or the indexing of its result, raises.
GenApiRaise ==
  /\ gpc = "call"
  /\ api_calls' = Append(api_calls, prompt)
  /\ \E e \in ApiErrors : ret' = ErrorResult(e)
  /\ raised' = TRUE
  /\ gpc' = "ret"
  /\ UNCHANGED <<prompt, full_text>>

GenParse ==
  /\ gpc = "parse"
  /\ ret' = SplitResponse(full_text)
  /\ gpc' = "ret"
  /\ UNCHANGED <<prompt, api_calls, full_text, raised>>

Request(ing, meal, cui, time, cx, name) ==
  [ingredients |-> ing, meal_type |-> meal, cuisine |-> cui,
   cooking_time |-> time, complexity |-> cx, recipe_name |-> name]

BroadRequest ==
  Request(<<"egg">>, <<"Dinner">>, <<"Indian">>, <<"30-60", SP, "minutes">>,
          <<"Beginner">>, None)

SplitLineSet ==
  { <<>>,
    <<"Mix">>,
    <<SP, "Bake", SP>>,
    <<"**">> \o SuggestionsHeader \o <<"**">>,
    <<"-", SP, "Pancakes">>,
    <<SP, "-", "Waffles", SP>>,
    <<"Crepes">> }

SplitReplies == {Join(ls) : ls \in SeqsUpTo(SplitLineSet, MaxReplyLines)}

GenRequests ==
  { BroadRequest, [BroadRequest EXCEPT !.recipe_name = Some(<<"Pancakes">>)] }

InitGen ==
  /\ args \in GenRequests
  /\ gpc = "entry" /\ prompt = <<>> /\ api_calls = <<>>
  /\ full_text = <<>> /\ ret = <<>> /\ raised = FALSE
  /\ FIdle /\ UIdle /\ SIdle

NextGen ==
  \/ GenBuildPrompt /\ UNCHANGED <<fvars, args, uvars, svars>>
  \/ GenApiOk(SplitReplies) /\ UNCHANGED <<fvars, args, uvars, svars>>
  \/ GenApiRaise /\ UNCHANGED <<fvars, args, uvars, svars>>
  \/ GenParse /\ UNCHANGED <<fvars, args, uvars, svars>>

SpecGen == InitGen /\ [][NextGen]_vars

-----------------------------------------------------------------------------
(* The Streamlit script after a press of the button (lines 286-326).  The
   widget values ingredients, meal_type, cuisine, cooking_time and
   complexity are held in args: every call passes them unchanged, and only
   recipe_name differs between the calls. *)

Error(text) == [call |-> "error", text |-> text]
Markdown(text) == [call |-> "markdown", text |-> text]

\* Lines 286-297.
UIButton ==
  /\ upc = "button"
  /\ IF args.ingredients = <<>>
       THEN /\ ui_out' = Append(ui_out, Error(<<"Please enter or upload ingredients">>))
            /\ upc' = "done"
            /\ UNCHANGED <<args, gvars>>
       ELSE /\ args' = [args EXCEPT !.recipe_name = None]
            /\ gpc' = "entry"
            /\ raised' = FALSE
            /\ upc' = "main"
            /\ UNCHANGED <<ui_out, prompt, api_calls, full_text, ret>>
  /\ UNCHANGED <<main_recipe_text, suggestions, i>>

\* Lines 298-309: the main call has returned.
UIMainReturn ==
  /\ upc = "main" /\ gpc = "ret"
  /\ main_recipe_text' = ret[1]
  /\ suggestions' = ret[2]
  /\ gpc' = "idle"
  /\ IF Contains(ret[1], <<"ERROR">>)
       THEN /\ ui_out' = Append(ui_out, Error(ret[1]))
            /\ upc' = "done"
            /\ i' = i
       ELSE /\ ui_out' = ui_out \o
                 << Markdown(<<"Generated Recipe:">>),
                    Markdown(format_recipe_text(ret[1])) >> \o
                 (IF ret[2] # <<>>
                    THEN <<Markdown(<<"Other Recipe Suggestions:">>)>>
                    ELSE <<>>)
            /\ upc' = IF ret[2] # <<>> THEN "tabs" ELSE "done"
            /\ i' = IF ret[2] # <<>> THEN 1 ELSE i
  /\ UNCHANGED <<args, prompt, api_calls, full_text, ret, raised>>

\* Lines 309-320: the next tab of st.tabs(suggestions) calls for its recipe.
\* st.tabs gives one tab per label, an empty label included.
UITabCall ==
  /\ upc = "tabs" /\ i <= Len(suggestions)
  /\ ui_out' = Append(ui_out, Markdown(<<"##", SP, "**">> \o suggestions[i] \o <<"**">>))
  /\ args' = [args EXCEPT !.recipe_name = Some(suggestions[i])]
  /\ gpc' = "entry"
  /\ raised' = FALSE
  /\ upc' = "tab"
  /\ UNCHANGED <<main_recipe_text, suggestions, i, prompt, api_calls,
                 full_text, ret>>

\* Lines 321-326: the call of tab i has returned.
UITabReturn ==
  /\ upc = "tab" /\ gpc = "ret"
  /\ ui_out' = IF Contains(ret[1], <<"ERROR">>)
                 THEN Append(ui_out, Error(ret[1]))
                 ELSE ui_out \o << Markdown(<<"---">>),
                                   Markdown(format_recipe_text(ret[1])) >>
  /\ i' = i + 1
  /\ upc' = IF i + 1 <= Len(suggestions) THEN "tabs" ELSE "done"
  /\ gpc' = "idle"
  /\ UNCHANGED <<args, main_recipe_text, suggestions, prompt, api_calls,
                 full_text, ret, raised>>

UILineSet ==
  { <<"Mix">>,
    <<"**">> \o SuggestionsHeader \o <<"**">>,
    <<"-", SP, "Pancakes">>,
    <<"Crepes">>,
    <<"-">> }

UIReplies == {Join(ls) : ls \in SeqsUpTo(UILineSet, MaxUILines)}

DetailReplies ==
  { Join(<< <<"Ingredients", ":">>, <<"egg">>, <<"Method">>, <<"Mix">> >>),
    Join(<< <<"Mix">>, <<"**">> \o SuggestionsHeader \o <<"**">>, <<"Crepes">> >>) }

InitUI ==
  /\ args \in { BroadRequest, [BroadRequest EXCEPT !.ingredients = <<>>] }
  /\ upc = "button" /\ main_recipe_text = <<>> /\ suggestions = <<>>
  /\ i = 0 /\ ui_out = <<>>
  /\ FIdle /\ GIdle /\ SIdle

NextUI ==
  \/ UIButton /\ UNCHANGED <<fvars, svars>>
  \/ UIMainReturn /\ UNCHANGED <<fvars, svars>>
  \/ UITabCall /\ UNCHANGED <<fvars, svars>>
  \/ UITabReturn /\ UNCHANGED <<fvars, svars>>
  \/ GenBuildPrompt /\ UNCHANGED <<fvars, args, uvars, svars>>
  \/ GenApiOk(IF upc = "main" THEN UIReplies ELSE DetailReplies)
       /\ UNCHANGED <<fvars, args, uvars, svars>>
  \/ GenApiRaise /\ UNCHANGED <<fvars, args, uvars, svars>>
  \/ GenParse /\ UNCHANGED <<fvars, args, uvars, svars>>

Spec == InitUI /\ [][NextUI]_vars

-----------------------------------------------------------------------------
(* /recipeStream: the generator generate_response (src/backend.py:49-84). *)

StreamHeaders == { <<"Other", SP, "Recipes", ":">>, <<"Similar", SP, "Recipes", ":">> }

StreamLocals0 ==
  [main_recipe |-> <<>>, suggestions |-> <<>>, is_suggestion_section |-> FALSE]

\* One iteration of the for loop of lines 59-68.
StreamStep(st, line) ==
  IF \E h \in StreamHeaders : Contains(line, h)
    THEN [st EXCEPT !.is_suggestion_section = TRUE]
  ELSE IF st.is_suggestion_section /\ Strip(line) # <<>>
    THEN [st EXCEPT !.suggestions = Append(@, Strip(line))]
  ELSE IF ~st.is_suggestion_section
    THEN [st EXCEPT !.main_recipe = Append(@, Strip(line))]
  ELSE st

RECURSIVE StreamLoop(_, _)
StreamLoop(st, ls) ==
  IF ls = <<>> THEN st ELSE StreamLoop(StreamStep(st, Head(ls)), Tail(ls))

Event(kind, payload) == [kind |-> kind, payload |-> payload]

\* Lines 25-47: the request is read and the prompt built.
StreamEntry ==
  /\ bpc = "entry"
  /\ stream_prompt' = BackendPrompt(args)
  /\ bpc' = "call"
  /\ UNCHANGED <<main_recipe, stream_suggestions, sent, events>>

\* Lines 52-68: the model answers and the reply is split.
StreamCallOk(Replies) ==
  /\ bpc = "call"
  /\ api_calls' = Append(api_calls, stream_prompt)
  /\ \E text \in Replies :
       LET st == StreamLoop(StreamLocals0, Split(text)) IN
       /\ main_recipe' = st.main_recipe
       /\ stream_suggestions' = st.suggestions
  /\ sent' = 0
  /\ bpc' = "main"
  /\ UNCHANGED <<stream_prompt, events>>

\* Lines 82-84: generate_content, or reading response.text, raises.
StreamCallRaise ==
  /\ bpc = "call"
  /\ api_calls' = Append(api_calls, stream_prompt)
  /\ \E e \in ApiErrors :
       events' = Append(events, Event("error", <<"Failed to generate recipe. Reason:">> \o e))
  /\ bpc' = "done"
  /\ UNCHANGED <<stream_prompt, main_recipe, stream_suggestions, sent>>

\* Lines 71-73: the next chunk of main_recipe, yielded unless empty.
StreamMainChunk ==
  /\ bpc = "main" /\ sent < Len(main_recipe)
  /\ events' = IF main_recipe[sent + 1] # <<>>
                 THEN Append(events, Event("data", main_recipe[sent + 1]))
                 ELSE events
  /\ sent' = sent + 1
  /\ UNCHANGED <<bpc, stream_prompt, main_recipe, stream_suggestions>>

\* Lines 76-77.
StreamSuggestions ==
  /\ bpc = "main" /\ sent = Len(main_recipe)
  /\ events' = IF ~Truthy(args.recipe_name) /\ stream_suggestions # <<>>
                 THEN Append(events, Event("suggestions", stream_suggestions))
                 ELSE events
  /\ bpc' = "close"
  /\ UNCHANGED <<stream_prompt, main_recipe, stream_suggestions, sent>>

\* Line 80.
StreamClose ==
  /\ bpc = "close"
  /\ events' = Append(events, Event("close", <<>>))
  /\ bpc' = "done"
  /\ UNCHANGED <<stream_prompt, main_recipe, stream_suggestions, sent>>

StreamLineSet ==
  { <<>>,
    <<"Mix">>,
    <<"Other", SP, "Recipes", ":">>,
    <<SP, "Pancakes">> }

StreamReplies == {Join(ls) : ls \in SeqsUpTo(StreamLineSet, MaxStreamLines)}

StreamRequests ==
  { BroadRequest,
    [BroadRequest EXCEPT !.recipe_name = Some(<<>>)],
    [BroadRequest EXCEPT !.recipe_name = Some(<<"Pancakes">>)] }

InitStream ==
  /\ args \in StreamRequests
  /\ bpc = "entry" /\ stream_prompt = <<>> /\ main_recipe = <<>>
  /\ stream_suggestions = <<>> /\ sent = 0 /\ events = <<>>
  /\ FIdle /\ GIdle /\ UIdle

GRest == <<gpc, prompt, full_text, ret, raised>>

NextStream ==
  \/ StreamEntry /\ UNCHANGED <<fvars, args, gvars, uvars>>
  \/ StreamCallOk(StreamReplies) /\ UNCHANGED <<fvars, args, GRest, uvars>>
  \/ StreamCallRaise /\ UNCHANGED <<fvars, args, GRest, uvars>>
  \/ StreamMainChunk /\ UNCHANGED <<fvars, args, gvars, uvars>>
  \/ StreamSuggestions /\ UNCHANGED <<fvars, args, gvars, uvars>>
  \/ StreamClose /\ UNCHANGED <<fvars, args, gvars, uvars>>

SpecStream == InitStream /\ [][NextStream]_vars

-----------------------------------------------------------------------------
(* The two prompt builders on a range of requests. *)

PromptRequests ==
  { Request(ing, meal, cui, <<"30-60", SP, "minutes">>, cx, name) :
      ing \in { <<>>, <<"egg">> },
      meal \in { <<"Breakfast">>, <<"Dinner">> },
      cui \in { <<"Indian">>, <<"Italian">> },
      cx \in { <<"Beginner">>, <<"Advanced">> },
      name \in { None, Some(<<>>), Some(<<"Pancakes">>), Some(<<"Indian">>) } }

InitPrompt ==
  /\ args \in PromptRequests
  /\ gpc = "entry" /\ prompt = <<>> /\ api_calls = <<>>
  /\ full_text = <<>> /\ ret = <<>> /\ raised = FALSE
  /\ bpc = "entry" /\ stream_prompt = <<>> /\ main_recipe = <<>>
  /\ stream_suggestions = <<>> /\ sent = 0 /\ events = <<>>
  /\ FIdle /\ UIdle

NextPrompt ==
  \/ GenBuildPrompt /\ UNCHANGED <<fvars, args, uvars, svars>>
  \/ StreamEntry /\ UNCHANGED <<fvars, args, gvars, uvars>>

SpecPrompt == InitPrompt /\ [][NextPrompt]_vars

-----------------------------------------------------------------------------
(* Properties of format_recipe_text, checked under SpecFormat. *)

OutLines == Split(formatted)

IsDigit(t) == \E k \in 1..Len(Digits) : Digits[k] = t

\* The line starts with a digit followed by a period.
IsNumbered(l) == Len(l) >= 2 /\ IsDigit(l[1]) /\ l[2] = "."

\* The line has the shape of a step written by _flush_instructions.
IsStepLine(l) == Len(l) >= 3 /\ IsDigit(l[1]) /\ l[2] = "." /\ l[3] = SP

Steps(body) == [k \in 1..Len(body) |-> <<Str(k), ".", SP>> \o body[k]]

RECURSIVE SortedSeq(_)
SortedSeq(S) ==
  IF S = {} THEN <<>>
  ELSE LET m == CHOOSE x \in S : \A y \in S : x <= y
       IN <<m>> \o SortedSeq(S \ {m})

\* Positions of the heading lines of the input, ascending.
InHeads == SortedSeq({k \in 1..Len(lines) : IsHeading(lines[k])})

\* Segment k of ls cut at the positions heads: what follows the k-th
\* position up to the next one (segment 0: what precedes the first).
Seg(ls, heads, k) ==
  SubSeq(ls,
         IF k = 0 THEN 1 ELSE heads[k] + 1,
         IF k = Len(heads) THEN Len(ls) ELSE heads[k + 1] - 1)

\* The stripped non-blank lines of input segment k.
InBody(k) ==
  LET seg == Seg(lines, InHeads, k) IN
  SelectNonEmpty([j \in 1..Len(seg) |-> Strip(seg[j])])

OutIsHeading(l) == l # <<>> /\ l[1] \in {"##", "###"}

OutHeads == SortedSeq({k \in 1..Len(OutLines) : OutIsHeading(OutLines[k])})

\* A heading line that opens with an instructions label and carries no
\* label of another section.
IsInstructionsHeading(line) ==
  LET l == Lower(Strip(line)) IN
  /\ \E w \in {"instructions", "directions", "method"} : StartsWith(l, <<w>>)
  /\ ~Contains(l, <<"ingredients">>)
  /\ ~Contains(l, <<"tips">>)
  /\ ~Contains(l, <<"main", SP, "recipe">>)
  /\ ~Contains(l, <<"other", SP, "recipe", SP, "suggestions">>)

C2Case(k) ==
  /\ k \in 1..Len(InHeads)
  /\ IsInstructionsHeading(lines[InHeads[k]])
  /\ InBody(k) # <<>>
  /\ \A j \in 1..Len(InBody(k)) : ~IsNumbered(InBody(k)[j])

C3_NoDoubleBullet ==
  (/\ fpc = "loop" /\ idx >= 1
   /\ current_section \in {"ingredients", "tips"}
   /\ ~IsHeading(lines[idx])
   /\ StartsWith(Strip(lines[idx]), <<"-">>))
  => formatted_lines[Len(formatted_lines)] = Strip(lines[idx])

\* C7 (as claimed): once format_recipe_text has returned, every line of an
\* instructions section that starts with a digit and a period is a line of
\* the output as it stands, and no output line puts a number in front of it.
C7_NumberedPassThrough ==
  fpc = "done" =>
    \A k \in 1..Len(InHeads) :
       IsInstructionsHeading(lines[InHeads[k]]) =>
         \A j \in 1..Len(InBody(k)) :
            IsNumbered(InBody(k)[j]) =>
              /\ \E o \in 1..Len(OutLines) : OutLines[o] = InBody(k)[j]
              /\ \A o \in 1..Len(OutLines) :
                   ~(/\ IsStepLine(OutLines[o])
                     /\ SubSeq(OutLines[o], 4, Len(OutLines[o])) = InBody(k)[j])

\* The section named by the label a heading line begins with.
PrefixSection(lower_line) ==
  IF StartsWith(lower_line, <<"title">>) THEN "other"
  ELSE IF StartsWith(lower_line, <<"main", SP, "recipe">>) THEN "main_recipe"
  ELSE IF StartsWith(lower_line, <<"ingredients">>) THEN "ingredients"
  ELSE IF StartsWith(lower_line, <<"tips">>) THEN "tips"
  ELSE IF StartsWith(lower_line, <<"other", SP, "recipe", SP, "suggestions">>)
    THEN "suggestions"
  ELSE "instructions"

\* C8 (as claimed): right after the loop has consumed a heading line, the
\* active section is the section of the label the line begins with; a line
\* beginning with "title" activates no bullet or numbering section.
C8_PrefixDecidesSection ==
  (fpc = "loop" /\ idx >= 1 /\ IsHeading(lines[idx])) =>
    LET want == PrefixSection(Lower(Strip(lines[idx]))) IN
    IF want = "other"
      THEN current_section \notin {"ingredients", "tips", "instructions"}
      ELSE current_section = want

\* The numbered lines the output should hold between its k-th heading and
\* the next: the steps of input section k when that section collects
\* instructions, none in a bulleted section, and otherwise the numbered
\* lines of the input that pass through verbatim.
ExpectedSteps(k) ==
  LET section == IF k = 0 THEN "none"
                 ELSE HeadingSection(Lower(Strip(lines[InHeads[k]])))
  IN IF section = "instructions" THEN Steps(InBody(k))
     ELSE IF section \in {"ingredients", "tips"} THEN <<>>
     ELSE SelectSeq(InBody(k), IsStepLine)

\* C10 (as claimed): once format_recipe_text has returned, the output has
\* one heading per input heading, and between its k-th heading and the next
\* the numbered lines are exactly the steps of the k-th input section: every
\* collected instruction line is written once, under its own heading and
\* before the following heading.
C10_StepsOnceInOwnSection ==
  fpc = "done" =>
    /\ Len(OutHeads) = Len(InHeads)
    /\ \A k \in 0..Len(InHeads) :
         SelectSeq(Seg(OutLines, OutHeads, k), IsStepLine) = ExpectedSteps(k)

-----------------------------------------------------------------------------
(* Properties of generate_recipe_text, checked under SpecGen. *)

ReplyLines == Split(full_text)

HasHeader(l) == Contains(l, SuggestionsHeader)

\* The first non-blank token of the line is a dash: "- <name>".
IsDashLine(l) ==
  \E d \in 1..Len(l) : l[d] = "-" /\ \A j \in 1..(d - 1) : l[j] = SP

\* What follows the dash, without the blanks around it.
DashName(l) ==
  LET d == CHOOSE k \in 1..Len(l) : l[k] = "-" /\ \A j \in 1..(k - 1) : l[j] = SP
  IN Strip(SubSeq(l, d + 1, Len(l)))

\* The reply is a main body of h - 1 lines, the header line h, and exactly
\* three dash lines; the header text occurs in line h only.
C1Case(h) ==
  /\ h \in 1..Len(ReplyLines)
  /\ Len(ReplyLines) = h + 3
  /\ \A j \in 1..Len(ReplyLines) : HasHeader(ReplyLines[j]) <=> j = h
  /\ \A j \in (h + 1)..(h + 3) : IsDashLine(ReplyLines[j])

\* C1: when generate_recipe_text returns for a reply made of a main body,
\* one header line and exactly three "- <name>" lines, the suggestions are
\* the three names in order, and the main body is the non-blank main-body
\* lines (stripped) in order, joined by line breaks: no header line and no
\* suggestion line is part of it.
C1_SplitThreeSuggestions ==
  (gpc = "ret" /\ ~raised) =>
    \A h \in 1..Len(ReplyLines) :
       C1Case(h) =>
         /\ ret[2] = [j \in 1..3 |-> DashName(ReplyLines[h + j])]
         /\ ret[1] = Join(SelectNonEmpty([j \in 1..(h - 1) |-> Strip(ReplyLines[j])]))

C1_Witness ==
  /\ gpc = "ret" /\ ~raised
  /\ C1Case(2)
  /\ ret[1] = <<"Bake">>
  /\ ret[2] = << <<"Pancakes">>, <<"Waffles">>, <<"Pancakes">> >>

\* C4: when the API call of an invocation raised, the invocation has made
\* exactly one call, and it returns a text starting with "ERROR:" and an
\* empty suggestions list, without a reply having been read or split.
C4_ErrorNoRetry ==
  /\ Len(api_calls) <= 1
  /\ (gpc = "ret" /\ raised) =>
       /\ Len(api_calls) = 1
       /\ StartsWith(ret[1], <<"ERROR", ":">>)
       /\ ret[2] = <<>>
       /\ full_text = <<>>

C4_Witness ==
  /\ gpc = "ret" /\ raised
  /\ api_calls = <<prompt>>
  /\ ret = << <<"ERROR", ":", SP, "timeout">>, <<>> >>

-----------------------------------------------------------------------------
(* Properties of the prompt builders, checked under SpecPrompt. *)

FiveFields == {"ingredients", "meal_type", "cuisine", "cooking_time", "complexity"}

\* The template pieces that ask for three alternative recipes.
ThreeSuggestionTexts ==
  { "Other Recipe Suggestions: exactly three alternative recipe names, each prefixed with a dash",
    "Then, also suggest 3 other similar recipes by name only." }

HasPart(p, part) == \E k \in 1..Len(p) : p[k] = part

AsksForSuggestions(p) ==
  \E k \in 1..Len(p) : p[k].tag = "text" /\ p[k].name \in ThreeSuggestionTexts

Interpolates(p, f) == \E k \in 1..Len(p) : p[k].tag = "field" /\ p[k].name = f

PromptFollowsMode(p, a) ==
  IF Truthy(a.recipe_name)
    THEN /\ HasPart(p, Field("recipe_name", a.recipe_name[1]))
         /\ \A f \in FiveFields \ {"ingredients"} : ~Interpolates(p, f)
         /\ ~AsksForSuggestions(p)
    ELSE /\ \A f \in FiveFields : HasPart(p, Field(f, a[f]))
         /\ AsksForSuggestions(p)

\* C6: each prompt builder (frontend and backend) picks its mode from the
\* recipe name alone.  Without a recipe name (None or empty) the prompt holds
\* the five request fields verbatim and the request for three suggestions;
\* with one it holds the recipe name, none of meal type, cuisine, cooking
\* time and complexity, and no request for suggestions.
C6_PromptMode ==
  /\ gpc = "call" => PromptFollowsMode(prompt, args)
  /\ bpc = "call" => PromptFollowsMode(stream_prompt, args)

C6_Witness ==
  /\ gpc = "call" /\ bpc = "call"
  /\ args.recipe_name = Some(<<"Indian">>)
  /\ args.cuisine = <<"Indian">>
  /\ HasPart(prompt, Field("recipe_name", <<"Indian">>))
  /\ HasPart(stream_prompt, Field("recipe_name", <<"Indian">>))

-----------------------------------------------------------------------------
(* Property of the Streamlit flow, checked under Spec. *)

IsTargetedFor(p, name) ==
  /\ HasPart(p, Field("recipe_name", name))
  /\ \A f \in FiveFields : ~Interpolates(p, f)

\* C9 (as claimed): after a successful main generation, the k-th call that
\* follows the main call is made with the targeted prompt that names the
\* k-th suggestion, and when the script has finished there has been one
\* such call per suggestion.
C9_ExpansionsTargeted ==
  /\ \A k \in 2..Len(api_calls) :
       /\ k - 1 <= Len(suggestions)
       /\ IsTargetedFor(api_calls[k], suggestions[k - 1])
  /\ (upc = "done" /\ Len(api_calls) >= 1 /\ ~Contains(main_recipe_text, <<"ERROR">>))
       => Len(api_calls) = 1 + Len(suggestions)

-----------------------------------------------------------------------------
(* Property of /recipeStream, checked under SpecStream. *)

\* C5 (as claimed): when the generator has finished, whatever the outcome
\* of the model call, the close event has been yielded exactly once and is
\* the last event of the stream.
C5_StreamEndsWithClose ==
  bpc = "done" =>
    /\ events # <<>>
    /\ events[Len(events)].kind = "close"
    /\ Cardinality({k \in 1..Len(events) : events[k].kind = "close"}) = 1

=============================================================================
